---------------------------- MODULE Spec2Model ----------------------------
(***************************************************************************)
(* Model of DB_configuration.py: the spreadsheet-to-SQL transform          *)
(* generate_sql_queries and its helper extract_prep_time.                  *)
(*                                                                         *)
(* Text is a sequence of atoms: an atom is one character that is not a      *)
(* letter (a digit, a space, '_', '-', ',', a quote), or a maximal run of   *)
(* letters kept whole ("item", "Yes"), so that "item_id" is                 *)
(* <<"item", "_", "id">>.  The operations on text work atom by atom.  A      *)
(* blank spreadsheet cell is the pandas missing value NaN, modelled as      *)
(* <<"NaN">>, an atom no cell text is made of.                              *)
(***************************************************************************)
EXTENDS Integers, Sequences, FiniteSets, Bags, TLC

\* ------------------------------------------------------------------ bounds
\* Longest prep-time text enumerated for extract_prep_time.
MaxLen == 5
\* Most rows of an uploaded table.
MaxRows == 2
\* Most required columns left out of an uploaded header row.
MaxMissing == 2
\* Size of the pool uuid.uuid4() draws its values from.
NumGuids == 2

\* ------------------------------------------------------------ text helpers
NaN == <<"NaN">>

\* pd.notna(value)
NotNa(v) == v # NaN

\* str(value): the text itself, and 'nan' for a missing cell.
Str(v) == IF v = NaN THEN <<"nan">> ELSE v

IsSpace(c) == c = " "

RECURSIVE LStrip(_)
LStrip(s) == IF s # <<>> /\ IsSpace(Head(s)) THEN LStrip(Tail(s)) ELSE s

RECURSIVE RStrip(_)
RStrip(s) ==
  IF s # <<>> /\ IsSpace(s[Len(s)]) THEN RStrip(SubSeq(s, 1, Len(s) - 1)) ELSE s

\* str.strip()
Strip(s) == RStrip(LStrip(s))

\* The runs of letters that have an upper-case letter, with their lower case.
CasedWords ==
  <<<<"Item", "item">>, <<"Id", "id">>, <<"Name", "name">>, <<"Average", "average">>,
    <<"Preparation", "preparation">>, <<"Time", "time">>, <<"Is", "is">>,
    <<"Kids", "kids">>, <<"Friendly", "friendly">>, <<"Special", "special">>,
    <<"Instruction", "instruction">>, <<"Allergic", "allergic">>,
    <<"Information", "information">>, <<"Spice", "spice">>, <<"Level", "level">>,
    <<"Ingredients", "ingredients">>, <<"Pairing", "pairing">>,
    <<"Recommendation", "recommendation">>, <<"Notes", "notes">>, <<"Yes", "yes">>,
    <<"YES", "yes">>, <<"True", "true">>>>

\* str.lower(), one atom.
LowerChar(c) ==
  IF \E i \in 1..Len(CasedWords) : CasedWords[i][1] = c
  THEN CasedWords[CHOOSE i \in 1..Len(CasedWords) : CasedWords[i][1] = c][2]
  ELSE c

Lower(s) == [i \in 1..Len(s) |-> LowerChar(s[i])]

\* str.replace(" ", "_")
ReplaceSpaces(s) == [i \in 1..Len(s) |-> IF s[i] = " " THEN "_" ELSE s[i]]

\* str.split(sep): the parts between separators, empty parts kept.
RECURSIVE SplitAcc(_, _, _)
SplitAcc(s, sep, cur) ==
  IF s = <<>> THEN <<cur>>
  ELSE IF Head(s) = sep THEN <<cur>> \o SplitAcc(Tail(s), sep, <<>>)
  ELSE SplitAcc(Tail(s), sep, Append(cur, Head(s)))

Split(s, sep) == SplitAcc(s, sep, <<>>)

\* str.split(): the maximal runs of non-whitespace characters.
RECURSIVE SplitWsAcc(_, _)
SplitWsAcc(s, cur) ==
  IF s = <<>> THEN (IF cur = <<>> THEN <<>> ELSE <<cur>>)
  ELSE IF IsSpace(Head(s))
       THEN (IF cur = <<>> THEN <<>> ELSE <<cur>>) \o SplitWsAcc(Tail(s), <<>>)
       ELSE SplitWsAcc(Tail(s), Append(cur, Head(s)))

SplitWs(s) == SplitWsAcc(s, <<>>)

Digits == <<"0", "1", "2", "3", "4", "5", "6", "7", "8", "9">>

DigitChars == {Digits[i] : i \in 1..10}

\* str.isdigit()
IsDigit(s) == s # <<>> /\ \A i \in 1..Len(s) : s[i] \in DigitChars

DigitVal(c) == (CHOOSE i \in 1..10 : Digits[i] = c) - 1

\* int(text) of a digit string
RECURSIVE ToInt(_)
ToInt(s) ==
  IF s = <<>> THEN 0 ELSE 10 * ToInt(SubSeq(s, 1, Len(s) - 1)) + DigitVal(s[Len(s)])

\* the decimal digits of n, no padding
RECURSIVE IntToStr(_)
IntToStr(n) ==
  IF n < 10 THEN <<Digits[n + 1]>> ELSE Append(IntToStr(n \div 10), Digits[(n % 10) + 1])

\* f"{n:02d}": at least two digits, a leading zero added to a single one.
Format02d(n) == IF n < 10 THEN <<"0">> \o IntToStr(n) ELSE IntToStr(n)

Contains(s, c) == \E i \in 1..Len(s) : s[i] = c

DefaultPrep == <<"0", ":", "0", "0">>

\* extract_prep_time, the part inside try: "IndexError" stands for the
\* exception parts[1].strip().split()[0] raises on an empty token list.
\* The last portion instead of the second: what a reading of the range as
\* "the number after the last dash" would compute.
PrepTryLast(value) ==
  LET value_str == IF NotNa(value) THEN Str(value) ELSE <<>>
      parts == Split(value_str, "-")
      toks == SplitWs(Strip(parts[Len(parts)]))
  IN  IF Contains(value_str, "-") /\ Len(parts) > 1
      THEN IF toks = <<>> THEN <<"IndexError">>
           ELSE IF IsDigit(toks[1]) THEN <<"0", ":">> \o Format02d(ToInt(toks[1]))
           ELSE DefaultPrep
      ELSE DefaultPrep

PrepTry(value) ==
  LET value_str == IF NotNa(value) THEN Str(value) ELSE <<>>
      parts == Split(value_str, "-")
      toks == SplitWs(Strip(parts[2]))
  IN  IF Contains(value_str, "-") /\ Len(parts) > 1
      THEN IF toks = <<>> THEN <<"IndexError">>
           ELSE IF IsDigit(toks[1]) THEN <<"0", ":">> \o Format02d(ToInt(toks[1]))
           ELSE DefaultPrep
      ELSE DefaultPrep

PrepRaises(value) == PrepTry(value) = <<"IndexError">>

\* extract_prep_time's return value: the except branch returns the default.
extract_prep_time(value) == IF PrepRaises(value) THEN DefaultPrep ELSE PrepTry(value)

\* convert_kids_friendly
convert_kids_friendly(value) ==
  IF Lower(Strip(Str(value))) \in {<<"yes">>, <<"true">>, <<"1">>}
  THEN "true" ELSE "false"

\* .replace("'", "''")
RECURSIVE EscapeSingle(_)
EscapeSingle(s) ==
  IF s = <<>> THEN <<>>
  ELSE (IF Head(s) = "'" THEN <<"'", "'">> ELSE <<Head(s)>>) \o EscapeSingle(Tail(s))

\* .replace('"', '\\"')
RECURSIVE EscapeDouble(_)
EscapeDouble(s) ==
  IF s = <<>> THEN <<>>
  ELSE (IF Head(s) = "\"" THEN <<"\\", "\"">> ELSE <<Head(s)>>) \o EscapeDouble(Tail(s))

\* str(cell).replace("'", "''").replace('"', '\\"')
EscapeQuotes(v) == EscapeDouble(EscapeSingle(Str(v)))

\* ------------------------------------------------------------ column names
COL_item_id == <<"item", "_", "id">>

COL_item_name == <<"item", "_", "name">>

COL_average_preparation_time == <<"average", "_", "preparation", "_", "time">>

COL_is_kids_friendly == <<"is", "_", "kids", "_", "friendly">>

COL_special_instruction == <<"special", "_", "instruction">>

COL_allergic_information == <<"allergic", "_", "information">>

COL_spice_level == <<"spice", "_", "level">>

COL_ingredients == <<"ingredients">>

COL_pairing_recommendation == <<"pairing", "_", "recommendation">>

\* COLUMN_MAP: logical name -> cleaned header.
COLUMN_MAP ==
  [item_id |-> COL_item_id,
   item_name |-> COL_item_name,
   average_prep_time |-> COL_average_preparation_time,
   is_kids_friendly |-> COL_is_kids_friendly,
   special_instruction |-> COL_special_instruction,
   allergic_info |-> COL_allergic_information,
   spice_level |-> COL_spice_level,
   ingredients |-> COL_ingredients,
   pairing_recommendation |-> COL_pairing_recommendation]

\* required_cols = list(COLUMN_MAP.values()), in the dict's order.
required_cols ==
  <<COLUMN_MAP.item_id, COLUMN_MAP.item_name, COLUMN_MAP.average_prep_time,
    COLUMN_MAP.is_kids_friendly, COLUMN_MAP.special_instruction,
    COLUMN_MAP.allergic_info, COLUMN_MAP.spice_level, COLUMN_MAP.ingredients,
    COLUMN_MAP.pairing_recommendation>>

\* df.columns.astype(str).str.strip().str.lower().str.replace(" ", "_"), one label.
CleanLabel(h) == ReplaceSpaces(Lower(Strip(h)))

InSeq(x, s) == \E i \in 1..Len(s) : s[i] = x

\* missing_cols = [col for col in required_cols if col not in df.columns]
MissingCols(cols) == SelectSeq(required_cols, LAMBDA c : ~InSeq(c, cols))

\* How many columns of the frame carry the label.
LabelCount(cols, c) == Cardinality({i \in 1..Len(cols) : cols[i] = c})

\* ------------------------------------------------------------------ inputs
\* The uploaded header rows.  A required column is written plainly
\* ("item_id") or as a spreadsheet title (" Item Id "); up to MaxMissing of the
\* nine are left out; an unrelated column, or a second column that cleans to
\* spice_level, may follow.
UpperChar(c) ==
  IF \E i \in 1..Len(CasedWords) : CasedWords[i][2] = c
  THEN CasedWords[CHOOSE i \in 1..Len(CasedWords) : CasedWords[i][2] = c][1]
  ELSE c

TitleLabel(name) ==
  <<" ">> \o [i \in 1..Len(name) |-> IF name[i] = "_" THEN " " ELSE UpperChar(name[i])]
  \o <<" ">>

RECURSIVE KeepCols(_, _, _)
KeepCols(k, miss, title) ==
  IF k > Len(required_cols) THEN <<>>
  ELSE (IF k \in miss THEN <<>>
        ELSE <<IF title THEN TitleLabel(required_cols[k]) ELSE required_cols[k]>>)
       \o KeepCols(k + 1, miss, title)

ExtraCols == {<<>>, <<<<"Notes">>>>, <<TitleLabel(COL_spice_level)>>}

HeaderRows ==
  {KeepCols(1, miss, title) \o extra :
     miss \in {m \in SUBSET (1..Len(required_cols)) : Cardinality(m) <= MaxMissing},
     title \in BOOLEAN, extra \in ExtraCols}

PlainHeaders == KeepCols(1, {}, FALSE)

NotFoundText == <<"not", " ", "found">>

ItemIds == {NaN, <<" ">>, <<" ", "1">>}

ItemNames == {<<"A">>, <<"B">>}

Pairings == {NaN, <<" ">>, <<"A", ",", " ", ",", "C">>}

SpiceLevels == {NaN, <<" ">>, <<" ", "H">>, <<"M">>}

\* The cells the UPDATE statement alone reads: prep time, kids flag,
\* allergy text, special instruction.
PlainAttrs ==
  <<<<"5", "-", "1", "0", " ", "mins">>, <<"Yes">>, <<"nut", "'", "s">>, NaN>>

OddAttrs == <<<<"2", "-">>, NaN, NaN, <<"a", "\"", "b">>>>

MkRow(id, nm, pr, sp, at) ==
  [item_id |-> id, item_name |-> nm, average_preparation_time |-> at[1],
   is_kids_friendly |-> at[2], special_instruction |-> at[4],
   allergic_information |-> at[3], spice_level |-> sp, ingredients |-> NaN,
   pairing_recommendation |-> pr]

\* The rows of the uploaded tables.  The three passes read disjoint cells
\* (apart from item_id and item_name), so the rows vary the cells of one pass
\* at a time: the recommendation cells, the spice cell, the UPDATE cells, and
\* an item whose id is the text 'not found'.
Rows ==
  {MkRow(id, nm, pr, NaN, PlainAttrs) : id \in ItemIds, nm \in ItemNames, pr \in Pairings}
  \cup {MkRow(id, <<"A">>, NaN, sp, PlainAttrs) : id \in ItemIds, sp \in SpiceLevels}
  \cup {MkRow(id, <<"A">>, NaN, NaN, OddAttrs) : id \in ItemIds}
  \cup {MkRow(NotFoundText, nm, <<" ">>, NaN, PlainAttrs) : nm \in ItemNames}

Tables == UNION {[1..n -> Rows] : n \in 0..MaxRows}

\* Tables tried under every header row: the column check reads no cell.
ShortTables == {t \in UNION {[1..n -> Rows] : n \in 0..1} :
                  \A i \in 1..Len(t) : t[i].item_name = <<"A">>
                                       /\ t[i].pairing_recommendation = NaN}

LocationIds == {<<"L", "1">>}

\* The prep-time cells extract_prep_time is tried on.
PrepAlphabet == {"0", "1", "-", " ", "a"}

PrepExamples ==
  {NaN, <<"5", "-", "1", "0", " ", "mins">>, <<"1", "0", "-", "5">>,
   <<"1", "0", " ", "mins">>, <<"5", "-", "abc">>}

PrepInputs == UNION {[1..n -> PrepAlphabet] : n \in 0..MaxLen} \cup PrepExamples

\* ------------------------------------------------------------------- state
VARIABLES
  pc,                \* where the run is
  columns,           \* df.columns
  original_columns,  \* original_columns
  rows,              \* the frame's rows, in order (index label = position)
  location_id,       \* location_id
  all_sql_output,    \* all_sql_output, one entry per appended line
  update_queries,    \* update_queries
  pairing_rows,      \* pairing_rows
  item_name_to_id,   \* item_name_to_id
  spice_level_to_id, \* spice_level_to_id, as its items() in insertion order
  item_filter_links, \* item_filter_links
  index,             \* the loop's row position (0-based)
  error,             \* the exception generate_sql_queries raised, if any
  returned,          \* what generate_sql_queries returned, if it did
  st_warnings,       \* the values st.warning was called about
  value,             \* extract_prep_time's argument
  prep_time          \* extract_prep_time's result

vars ==
  <<pc, columns, original_columns, rows, location_id, all_sql_output,
    update_queries, pairing_rows, item_name_to_id, spice_level_to_id,
    item_filter_links, index, error, returned, st_warnings, value, prep_time>>

\* One appended line: its template k and the values formatted into it.
E(k, a) == [k |-> k, a |-> a]

NoError == [type |-> "none", missing_cols |-> <<>>]

NoDoc == <<>>

Init ==
  /\ pc = "clean"
  /\ \/ columns \in HeaderRows /\ rows \in ShortTables
     \/ columns = PlainHeaders /\ rows \in Tables
  /\ location_id \in LocationIds
  /\ original_columns = <<>>
  /\ all_sql_output = <<>>
  /\ update_queries = <<>>
  /\ pairing_rows = <<>>
  /\ item_name_to_id = <<>>
  /\ spice_level_to_id = <<>>
  /\ item_filter_links = <<>>
  /\ index = 0
  /\ error = NoError
  /\ returned = NoDoc
  /\ st_warnings = <<>>
  /\ value = NaN
  /\ prep_time = DefaultPrep

\* ----------------------------------------------------------------- actions
\* Lines 37-43: clean the column names, echo both header rows.  The two
\* comment lines format original_columns and cleaned_columns, which the state
\* keeps (as original_columns and columns) and no later step changes: the
\* entries do not repeat them.
CleanColumns ==
  /\ pc = "clean"
  /\ original_columns' = columns
  /\ columns' = [i \in 1..Len(columns) |-> CleanLabel(columns[i])]
  /\ all_sql_output' =
       all_sql_output \o <<E("orig_cols", <<>>), E("clean_cols", <<>>)>>
  /\ pc' = "verify"
  /\ UNCHANGED <<rows, location_id, update_queries, pairing_rows, item_name_to_id,
                 spice_level_to_id, item_filter_links, index, error, returned,
                 st_warnings, value, prep_time>>

\* Lines 58-62: a required column is absent; ValueError, nothing returned.
RaiseMissingColumns ==
  /\ pc = "verify"
  /\ MissingCols(columns) # <<>>
  /\ error' = [type |-> "ValueError", missing_cols |-> MissingCols(columns)]
  /\ pc' = "raised"
  /\ UNCHANGED <<columns, original_columns, rows, location_id, all_sql_output,
                 update_queries, pairing_rows, item_name_to_id, spice_level_to_id,
                 item_filter_links, index, returned, st_warnings, value, prep_time>>

\* Lines 58-67: every required column is there; open the UPDATE block.
BeginUpdates ==
  /\ pc = "verify"
  /\ MissingCols(columns) = <<>>
  /\ all_sql_output' = all_sql_output \o <<E("title_update", <<>>), E("start", <<>>)>>
  /\ update_queries' = <<>>
  /\ index' = 0
  /\ pc' = "update"
  /\ UNCHANGED <<columns, original_columns, rows, location_id, pairing_rows,
                 item_name_to_id, spice_level_to_id, item_filter_links, error,
                 returned, st_warnings, value, prep_time>>

\* Lines 70: item_id = str(row.get('item_id', '')).strip(); also 113, 182.
RowItemId(row) == Strip(Str(row.item_id))

\* Lines 75-94: the UPDATE statement of one row.  attributes_json is kept as
\* its four values in the template's order; attributes_sql's second
\* .replace("'", "''") runs over the whole JSON text, whose template and
\* kidsFriendly value hold no single quote.
UpdateQuery(row) ==
  E("update",
    [attributes |->
       [allergicInfo |-> EscapeSingle(EscapeQuotes(row.allergic_information)),
        kidsFriendly |-> convert_kids_friendly(row.is_kids_friendly),
        prepTimeInMins |-> EscapeSingle(extract_prep_time(row.average_preparation_time)),
        specialInstructions |-> EscapeSingle(EscapeQuotes(row.special_instruction))],
     id |-> RowItemId(row)])

\* Lines 68-98, one iteration.  The except branch (96-98) is not modelled:
\* str, strip, replace and the two helpers raise on no cell value.
UpdateRow ==
  /\ pc = "update"
  /\ index < Len(rows)
  /\ LET row == rows[index + 1] IN
       IF RowItemId(row) = <<>>
       THEN /\ all_sql_output' = Append(all_sql_output, E("skip_update", index + 2))
            /\ UNCHANGED <<update_queries, st_warnings, value, prep_time>>
       ELSE /\ update_queries' = Append(update_queries, UpdateQuery(row))
            /\ value' = row.average_preparation_time
            /\ prep_time' = extract_prep_time(row.average_preparation_time)
            /\ st_warnings' =
                 IF PrepRaises(row.average_preparation_time)
                 THEN Append(st_warnings, row.average_preparation_time)
                 ELSE st_warnings
            /\ UNCHANGED all_sql_output
  /\ index' = index + 1
  /\ UNCHANGED <<pc, columns, original_columns, rows, location_id, pairing_rows,
                 item_name_to_id, spice_level_to_id, item_filter_links, error,
                 returned>>

\* Lines 100-102: the statements, then COMMIT and the blank line.
\* The statements after the COMMIT: what flushing them late would give.
UpdateBlockTailLate(out, queries) ==
  out \o <<E("commit", <<>>), E("blank", <<>>)>> \o queries

UpdateBlockTail(out, queries) ==
  out \o queries \o <<E("commit", <<>>), E("blank", <<>>)>>

\* Line 109: df.set_index(item_name)[item_id].to_dict(); a later row with the
\* same name overwrites an earlier one.  Keys and values are the raw cells.
NameToId(tbl) ==
  [nm \in {tbl[i].item_name : i \in 1..Len(tbl)} |->
     tbl[CHOOSE i \in 1..Len(tbl) :
           /\ tbl[i].item_name = nm
           /\ \A j \in (i + 1)..Len(tbl) : tbl[j].item_name # nm].item_id]

\* Lines 100-109: close the UPDATE block, open the recommendation block.
FlushUpdates ==
  /\ pc = "update"
  /\ index = Len(rows)
  /\ all_sql_output' =
       UpdateBlockTail(all_sql_output, update_queries)
         \o <<E("title_rec", <<>>), E("start", <<>>)>>
  /\ pairing_rows' = <<>>
  /\ item_name_to_id' = NameToId(rows)
  /\ index' = 0
  /\ pc' = "rec"
  /\ UNCHANGED <<columns, original_columns, rows, location_id, update_queries,
                 spice_level_to_id, item_filter_links, error, returned,
                 st_warnings, value, prep_time>>

\* Line 130: item_name_to_id.get(rec_name, 'not found')
LookupId(dict, rec_name) ==
  IF rec_name \in DOMAIN dict THEN dict[rec_name] ELSE NotFoundText

\* Lines 126-135: the tokens of one row, left to right; acc carries
\* pairing_rows and all_sql_output.
RECURSIVE ScanRecs(_, _, _, _)
ScanRecs(rec_list, base_id, dict, acc) ==
  IF rec_list = <<>> THEN acc
  ELSE LET rec_name == Strip(Head(rec_list))
           recommended_id == LookupId(dict, rec_name)
           next ==
             IF rec_name = <<>> THEN acc
             ELSE IF recommended_id # NotFoundText
             THEN [acc EXCEPT !.pairs = Append(@, <<base_id, recommended_id>>)]
             ELSE [acc EXCEPT !.out =
                     Append(@, E("warn_rec", [rec_name |-> rec_name, base_id |-> base_id]))]
       IN  ScanRecs(Tail(rec_list), base_id, dict, next)

\* Line 114: rec_list_str = str(row.get('pairing_recommendation', '')).strip()
RowRecListStr(row) == Strip(Str(row.pairing_recommendation))

\* Lines 111-138, one iteration.  The except branch (136-138) is not
\* modelled: nothing in the body raises on a cell value.
RecRow ==
  /\ pc = "rec"
  /\ index < Len(rows)
  /\ LET row == rows[index + 1]
         base_id == RowItemId(row)
         rec_list_str == RowRecListStr(row)
         scanned == ScanRecs(Split(rec_list_str, ","), base_id, item_name_to_id,
                             [pairs |-> pairing_rows, out |-> all_sql_output])
     IN  IF base_id = <<>>
         THEN /\ all_sql_output' = Append(all_sql_output, E("skip_rec", index + 2))
              /\ UNCHANGED pairing_rows
         ELSE IF rec_list_str = <<>>
         THEN UNCHANGED <<all_sql_output, pairing_rows>>
         ELSE /\ all_sql_output' = scanned.out
              /\ pairing_rows' = scanned.pairs
  /\ index' = index + 1
  /\ UNCHANGED <<pc, columns, original_columns, rows, location_id, update_queries,
                 item_name_to_id, spice_level_to_id, item_filter_links, error,
                 returned, st_warnings, value, prep_time>>

\* Lines 144 and 201: list(set([pair[0] for pair in pairs])), the IN list of
\* the DELETE.  A set's iteration order is arbitrary and IN does not read it:
\* the list is kept as the bag of its elements.
\* Without set(): every pair's source, repeated as often as it occurs.
AllSources(pairs) ==
  [x \in {pairs[i][1] : i \in 1..Len(pairs)} |->
     Cardinality({i \in 1..Len(pairs) : pairs[i][1] = x})]

DistinctSources(pairs) == SetToBag({pairs[i][1] : i \in 1..Len(pairs)})

\* Lines 150 and 209: the value tuples, each element through the f-string's str().
ValueTuples(pairs) == [i \in 1..Len(pairs) |-> <<Str(pairs[i][1]), Str(pairs[i][2])>>]

\* Lines 141-154: the recommendation statements.
RecStatements(pairs) ==
  IF pairs # <<>>
  THEN <<E("delete_rec", DistinctSources(pairs)), E("insert_rec", ValueTuples(pairs))>>
  ELSE <<E("no_rec", <<>>)>>

\* Lines 141-161: emit the recommendation statements, close the block, open
\* the filter-tag block.
EmitRecommendations ==
  /\ pc = "rec"
  /\ index = Len(rows)
  /\ all_sql_output' =
       all_sql_output \o RecStatements(pairing_rows)
         \o <<E("commit", <<>>), E("blank", <<>>), E("title_tags", <<>>), E("start", <<>>)>>
  /\ pc' = "spice"
  /\ UNCHANGED <<columns, original_columns, rows, location_id, update_queries,
                 pairing_rows, item_name_to_id, spice_level_to_id, item_filter_links,
                 index, error, returned, st_warnings, value, prep_time>>

\* Series.unique(): the values in order of first appearance.
RECURSIVE Unique(_)
Unique(s) ==
  IF s = <<>> THEN <<>>
  ELSE LET init == Unique(SubSeq(s, 1, Len(s) - 1))
       IN  IF InSeq(s[Len(s)], init) THEN init ELSE Append(init, s[Len(s)])

\* Line 165: the column's cells .dropna().astype(str).str.strip().unique()
SpiceLevelsOf(tbl) ==
  LET cells == [i \in 1..Len(tbl) |-> tbl[i].spice_level]
      kept == SelectSeq(cells, NotNa)
  IN  Unique([i \in 1..Len(kept) |-> Strip(Str(kept[i]))])

\* Line 166: the levels that get a tag: "if level".
TaggedLevels(tbl) == SelectSeq(SpiceLevelsOf(tbl), LAMBDA level : level # <<>>)

\* str(uuid.uuid4()): one of the pool's values.
Guid(k) == [uuid |-> k]

\* Lines 171-174: the filter-tag rows, in the dict's order.
TagRows(tags, loc) ==
  [i \in 1..Len(tags) |->
     [id |-> tags[i][2], location_id |-> loc, name |-> EscapeSingle(tags[i][1]),
      is_food_prep |-> "1"]]

\* Line 165 over a frame with two columns labelled spice_level: df.get returns
\* a DataFrame, which has no .str accessor; the AttributeError is raised
\* outside every try and leaves generate_sql_queries.
RaiseOnSpiceColumns ==
  /\ pc = "spice"
  /\ LabelCount(columns, COLUMN_MAP.spice_level) > 1
  /\ error' = [type |-> "AttributeError", missing_cols |-> <<>>]
  /\ pc' = "raised"
  /\ UNCHANGED <<columns, original_columns, rows, location_id, all_sql_output,
                 update_queries, pairing_rows, item_name_to_id, spice_level_to_id,
                 item_filter_links, index, returned, st_warnings, value, prep_time>>

\* Lines 163-178: one fresh uuid per tagged level (distinct draws from the
\* pool), and the filter-tag INSERT when there is a tag.
BuildFilterTags ==
  /\ pc = "spice"
  /\ LabelCount(columns, COLUMN_MAP.spice_level) = 1
  /\ LET levels == TaggedLevels(rows) IN
       \E g \in [1..Len(levels) -> 1..NumGuids] :
         /\ \A i, j \in 1..Len(levels) : g[i] = g[j] => i = j
         /\ spice_level_to_id' = [i \in 1..Len(levels) |-> <<levels[i], Guid(g[i])>>]
         /\ all_sql_output' =
              IF levels # <<>>
              THEN all_sql_output \o
                     <<E("title_tag_insert", <<>>),
                       E("insert_tags",
                         TagRows([i \in 1..Len(levels) |-> <<levels[i], Guid(g[i])>>],
                                 location_id))>>
              ELSE all_sql_output
  /\ item_filter_links' = <<>>
  /\ index' = 0
  /\ pc' = "links"
  /\ UNCHANGED <<columns, original_columns, rows, location_id, update_queries,
                 pairing_rows, item_name_to_id, error, returned, st_warnings, value,
                 prep_time>>

\* Line 184: spice_level_to_id.get(spice_level): the tag's (level, id) pairs.
TagsOf(tags, spice_level) == SelectSeq(tags, LAMBDA t : t[1] = spice_level)

\* Line 183: spice_level = str(row.get('spice_level', '')).strip()
RowSpiceLevel(row) == Strip(Str(row.spice_level))

\* Lines 180-196, one iteration.  The except branch (194-196) is not
\* modelled: nothing in the body raises on a cell value.
LinkRow ==
  /\ pc = "links"
  /\ index < Len(rows)
  /\ LET row == rows[index + 1]
         item_id == RowItemId(row)
         found == TagsOf(spice_level_to_id, RowSpiceLevel(row))
     IN  item_filter_links' =
           IF item_id # <<>> /\ found # <<>>
           THEN Append(item_filter_links, <<item_id, found[1][2]>>)
           ELSE item_filter_links
  /\ index' = index + 1
  /\ UNCHANGED <<pc, columns, original_columns, rows, location_id, all_sql_output,
                 update_queries, pairing_rows, item_name_to_id, spice_level_to_id,
                 error, returned, st_warnings, value, prep_time>>

\* Lines 209: the link tuples as written.
LinkTuples(links) == [i \in 1..Len(links) |-> <<links[i][1], links[i][2]>>]

\* Lines 198-213: the link statements.
LinkStatements(links) ==
  IF links # <<>>
  THEN <<E("delete_links", DistinctSources(links)), E("title_link_insert", <<>>),
         E("insert_links", LinkTuples(links))>>
  ELSE <<E("no_links", <<>>)>>

\* Lines 198-213: emit the link statements.
EmitLinks ==
  /\ pc = "links"
  /\ index = Len(rows)
  /\ all_sql_output' = all_sql_output \o LinkStatements(item_filter_links)
  /\ pc' = "media"
  /\ UNCHANGED <<columns, original_columns, rows, location_id, update_queries,
                 pairing_rows, item_name_to_id, spice_level_to_id, item_filter_links,
                 index, error, returned, st_warnings, value, prep_time>>

\* Lines 224-228: one mh_media INSERT per tag.
MediaQueries(tags) ==
  [i \in 1..Len(tags) |->
     E("insert_media",
       [id |-> tags[i][2], entity_type |-> "FILTER", entity_id |-> tags[i][2],
        file_name |-> <<tags[i][2], ".png">>, mime_type |-> "image/png"])]

\* Lines 216-234: the media statements, then COMMIT and the blank line.
EmitMedia ==
  /\ pc = "media"
  /\ all_sql_output' =
       all_sql_output
         \o (IF spice_level_to_id # <<>>
             THEN <<E("title_media", <<>>)>> \o MediaQueries(spice_level_to_id)
             ELSE <<E("no_media", <<>>)>>)
         \o <<E("commit", <<>>), E("blank", <<>>)>>
  /\ pc' = "return"
  /\ UNCHANGED <<columns, original_columns, rows, location_id, update_queries,
                 pairing_rows, item_name_to_id, spice_level_to_id, item_filter_links,
                 index, error, returned, st_warnings, value, prep_time>>

\* Line 237: return "\n".join(all_sql_output): the lines, in order.
Return ==
  /\ pc = "return"
  /\ returned' = all_sql_output
  /\ pc' = "done"
  /\ UNCHANGED <<columns, original_columns, rows, location_id, all_sql_output,
                 update_queries, pairing_rows, item_name_to_id, spice_level_to_id,
                 item_filter_links, index, error, st_warnings, value, prep_time>>

Next ==
  \/ CleanColumns
  \/ RaiseMissingColumns
  \/ BeginUpdates
  \/ UpdateRow
  \/ FlushUpdates
  \/ RecRow
  \/ EmitRecommendations
  \/ RaiseOnSpiceColumns
  \/ BuildFilterTags
  \/ LinkRow
  \/ EmitLinks
  \/ EmitMedia
  \/ Return

Spec == Init /\ [][Next]_vars

\* ------------------------------------------ extract_prep_time on its own
InitPrep ==
  /\ pc = "prep_call"
  /\ value \in PrepInputs
  /\ prep_time = DefaultPrep
  /\ st_warnings = <<>>
  /\ columns = <<>>
  /\ rows = <<>>
  /\ location_id \in LocationIds
  /\ original_columns = <<>>
  /\ all_sql_output = <<>>
  /\ update_queries = <<>>
  /\ pairing_rows = <<>>
  /\ item_name_to_id = <<>>
  /\ spice_level_to_id = <<>>
  /\ item_filter_links = <<>>
  /\ index = 0
  /\ error = NoError
  /\ returned = NoDoc

\* Lines 14-27: the try block returns.
PrepReturn ==
  /\ pc = "prep_call"
  /\ ~PrepRaises(value)
  /\ prep_time' = extract_prep_time(value)
  /\ pc' = "prep_ret"
  /\ UNCHANGED <<columns, original_columns, rows, location_id, all_sql_output,
                 update_queries, pairing_rows, item_name_to_id, spice_level_to_id,
                 item_filter_links, index, error, returned, st_warnings, value>>

\* Lines 28-30: the try block raised; warn and return the default.
PrepExcept ==
  /\ pc = "prep_call"
  /\ PrepRaises(value)
  /\ st_warnings' = Append(st_warnings, value)
  /\ prep_time' = extract_prep_time(value)
  /\ pc' = "prep_ret"
  /\ UNCHANGED <<columns, original_columns, rows, location_id, all_sql_output,
                 update_queries, pairing_rows, item_name_to_id, spice_level_to_id,
                 item_filter_links, index, error, returned, value>>

NextPrep == PrepReturn \/ PrepExcept

SpecPrep == InitPrep /\ [][NextPrep]_vars

\* ------------------------------------------------------------------ claims
\* What the claims call an empty cell: a blank cell, or text that is empty
\* after trimming.
EmptyCell(v) == v = NaN \/ Strip(v) = <<>>

OfKind(out, k) == SelectSeq(out, LAMBDA e : e.k = k)

KindAt(out) == [i \in 1..Len(out) |-> out[i].k]

Positions(out, kinds) == {i \in 1..Len(out) : out[i].k \in kinds}

\* The positions 1..n that satisfy Keep, in order.
RowsWhere(n, Keep(_)) == SelectSeq([i \in 1..n |-> i], Keep)

\* The value tuples of the only statement of kind k, none if there is no such
\* statement.
TuplesOf(out, k) == IF OfKind(out, k) = <<>> THEN <<>> ELSE OfKind(out, k)[1].a

\* The labels of the uploaded header row, normalized as the claim says.
AbsentColumns ==
  SelectSeq(required_cols,
            LAMBDA c : \A i \in 1..Len(original_columns) :
                          ReplaceSpaces(Lower(Strip(original_columns[i]))) # c)

\* C1: generate_sql_queries fails if and only if a required column is absent
\* from the normalized headers; the error then carries exactly the absent
\* names and nothing is returned; with all nine columns the run never fails.
C1_FailsIffColumnMissing ==
  pc \notin {"clean", "prep_call", "prep_ret"} =>
    /\ pc = "raised" =>
         /\ AbsentColumns # <<>>
         /\ error.type = "ValueError"
         /\ error.missing_cols = AbsentColumns
         /\ returned = NoDoc
    /\ AbsentColumns # <<>> => pc \in {"verify", "raised"}

\* C2: a row whose item_id is a blank cell or empty after trimming gets no
\* UPDATE statement and exactly one skip comment with its spreadsheet row
\* number (position + 2, 0-based); every other row gets exactly one UPDATE,
\* in row order.
C2_EmptyIdRowsSkipped ==
  pc = "done" =>
    LET n == Len(rows)
        skipped == RowsWhere(n, LAMBDA i : EmptyCell(rows[i].item_id))
        kept == RowsWhere(n, LAMBDA i : ~EmptyCell(rows[i].item_id))
        skips == OfKind(returned, "skip_update")
        updates == OfKind(returned, "update")
    IN  /\ [k \in 1..Len(skips) |-> skips[k].a] = [k \in 1..Len(skipped) |-> skipped[k] + 1]
        /\ [k \in 1..Len(updates) |-> updates[k].a.id]
             = [k \in 1..Len(kept) |-> Strip(rows[kept[k]].item_id)]

\* The trimmed ids of the rows that have one.
NonEmptyIds ==
  {Strip(rows[i].item_id) : i \in {j \in 1..Len(rows) : ~EmptyCell(rows[j].item_id)}}

\* C3: a row with an empty item_id is in no derived structure: it is neither
\* source nor target of a recommendation tuple, it is in no link tuple, and
\* its spice_level alone causes no filter-tag row and no media row.
C3_EmptyIdRowsExcluded ==
  pc = "done" =>
    LET recs == TuplesOf(returned, "insert_rec")
        links == TuplesOf(returned, "insert_links")
        tags == TuplesOf(returned, "insert_tags")
        levels ==
          {EscapeSingle(Strip(rows[i].spice_level)) :
             i \in {j \in 1..Len(rows) : ~EmptyCell(rows[j].item_id)
                                          /\ ~EmptyCell(rows[j].spice_level)}}
    IN  /\ \A k \in 1..Len(recs) : recs[k][1] \in NonEmptyIds /\ recs[k][2] \in NonEmptyIds
        /\ \A k \in 1..Len(links) : links[k][1] \in NonEmptyIds
        /\ \A k \in 1..Len(tags) : tags[k].name \in levels
        /\ Len(OfKind(returned, "insert_media")) <= Cardinality(levels)

\* The non-empty trimmed tokens of a pairing_recommendation cell.
PairingTokens(v) ==
  IF v = NaN THEN <<>>
  ELSE LET parts == Split(v, ",")
       IN  SelectSeq([k \in 1..Len(parts) |-> Strip(parts[k])], LAMBDA t : t # <<>>)

\* (source, token) for every token of every row with a non-empty item_id, in
\* row order, then token order.
RECURSIVE SourcedTokens(_)
SourcedTokens(i) ==
  IF i > Len(rows) THEN <<>>
  ELSE (IF EmptyCell(rows[i].item_id) THEN <<>>
        ELSE LET toks == PairingTokens(rows[i].pairing_recommendation)
             IN  [k \in 1..Len(toks) |-> [src |-> Strip(rows[i].item_id), tok |-> toks[k]]])
       \o SourcedTokens(i + 1)

IsItemName(t) == \E i \in 1..Len(rows) : rows[i].item_name = t

\* C4: every non-empty token of a row with a non-empty item_id gives one edge
\* (source, id of a row of that name) when it is an item_name of the table
\* and one warning naming token and source otherwise; the INSERT holds one
\* tuple per resolved token, in discovery order, and nothing else.
C4_TokensResolveOrWarn ==
  pc = "done" =>
    LET all == SourcedTokens(1)
        resolved == SelectSeq(all, LAMBDA x : IsItemName(x.tok))
        unresolved == SelectSeq(all, LAMBDA x : ~IsItemName(x.tok))
        recs == TuplesOf(returned, "insert_rec")
        warns == OfKind(returned, "warn_rec")
    IN  /\ Len(recs) = Len(resolved)
        /\ \A k \in 1..Len(recs) :
             /\ recs[k][1] = resolved[k].src
             /\ \E i \in 1..Len(rows) :
                  rows[i].item_name = resolved[k].tok /\ recs[k][2] = Str(rows[i].item_id)
        /\ [k \in 1..Len(warns) |-> warns[k].a]
             = [k \in 1..Len(unresolved) |->
                  [rec_name |-> unresolved[k].tok, base_id |-> unresolved[k].src]]

\* One DELETE/INSERT block of the returned document, for the pairs the pass
\* collected: with a pair, exactly one DELETE, before the one INSERT, its IN
\* list the distinct sources of the INSERT's tuples, each once, and no
\* "nothing to insert" comment; with no pair, that comment and no statement.
ReplaceBlockOk(pairs, del, ins, none) ==
  LET D == Positions(returned, {del})
      I == Positions(returned, {ins})
      N == Positions(returned, {none})
  IN  IF pairs # <<>>
      THEN /\ Cardinality(D) = 1 /\ Cardinality(I) = 1 /\ N = {}
           /\ \A d \in D, i \in I :
                /\ d < i
                /\ Len(returned[i].a) = Len(pairs)
                /\ BagToSet(returned[d].a)
                     = {returned[i].a[k][1] : k \in 1..Len(returned[i].a)}
                /\ \A x \in BagToSet(returned[d].a) : CopiesIn(x, returned[d].a) = 1
      ELSE D = {} /\ I = {} /\ Cardinality(N) = 1

\* C5: in the recommendation block and in the link block alike: with a pair,
\* exactly one DELETE before the single INSERT, the DELETE's IN list being the
\* distinct sources of the INSERT's tuples, each once; without a pair, neither
\* statement, only the explanatory comment.
C5_DeleteBeforeInsert ==
  pc = "done" =>
    /\ ReplaceBlockOk(pairing_rows, "delete_rec", "insert_rec", "no_rec")
    /\ ReplaceBlockOk(item_filter_links, "delete_links", "insert_links", "no_links")

\* C5's case: a run whose recommendation INSERT has two tuples of one source.
C5_Witness ==
  /\ pc = "done"
  /\ Len(pairing_rows) = 2
  /\ pairing_rows[1][1] = pairing_rows[2][1]

\* C6: one filter-tag row per distinct non-empty trimmed spice_level, with
\* pairwise distinct ids; one link tuple (item_id, that level's tag id) for
\* each row with a non-empty item_id and a non-empty spice_level, and no
\* other; one media INSERT ('<tag-id>.png', FILTER) per tag.
C6_TagsLinksMedia ==
  pc = "done" =>
    LET n == Len(rows)
        levels == {Strip(rows[i].spice_level) :
                     i \in {j \in 1..n : ~EmptyCell(rows[j].spice_level)}}
        tags == TuplesOf(returned, "insert_tags")
        links == TuplesOf(returned, "insert_links")
        media == OfKind(returned, "insert_media")
        linked == RowsWhere(n, LAMBDA i : ~EmptyCell(rows[i].item_id)
                                             /\ ~EmptyCell(rows[i].spice_level))
    IN  /\ Len(tags) = Cardinality(levels)
        /\ {tags[k].name : k \in 1..Len(tags)} = {EscapeSingle(l) : l \in levels}
        /\ \A j, k \in 1..Len(tags) : tags[j].id = tags[k].id => j = k
        /\ Len(links) = Len(linked)
        /\ \A k \in 1..Len(links) :
             /\ links[k][1] = Strip(rows[linked[k]].item_id)
             /\ \E t \in 1..Len(tags) :
                  /\ tags[t].name = EscapeSingle(Strip(rows[linked[k]].spice_level))
                  /\ tags[t].id = links[k][2]
        /\ Len(media) = Len(tags)
        /\ \A k \in 1..Len(media) :
             /\ media[k].a.id = tags[k].id
             /\ media[k].a.entity_type = "FILTER"
             /\ media[k].a.file_name = <<tags[k].id, ".png">>

\* C7: a returned document is, in this order, the two header comments, the
\* UPDATE block, the recommendation block and the filter-tag/link/media
\* block; START TRANSACTION and COMMIT occur three times each, alternating,
\* START first; every UPDATE, DELETE and INSERT lies between the START and the
\* COMMIT of its own block.
C7_ThreeTransactions ==
  pc = "done" =>
    LET K == KindAt(returned)
        tx == SelectSeq(K, LAMBDA k : k \in {"start", "commit"})
        S == RowsWhere(Len(K), LAMBDA i : K[i] = "start")
        C == RowsWhere(Len(K), LAMBDA i : K[i] = "commit")
        Inside(kinds, b) ==
          \A i \in Positions(returned, kinds) : S[b] < i /\ i < C[b]
    IN  /\ tx = <<"start", "commit", "start", "commit", "start", "commit">>
        /\ K[1] = "orig_cols" /\ K[2] = "clean_cols"
        /\ K[S[1] - 1] = "title_update" /\ S[1] = 4
        /\ K[S[2] - 1] = "title_rec"
        /\ K[S[3] - 1] = "title_tags"
        /\ Positions(returned, {"title_update", "title_rec", "title_tags"})
             = {S[1] - 1, S[2] - 1, S[3] - 1}
        /\ Inside({"update", "skip_update"}, 1)
        /\ Inside({"delete_rec", "insert_rec", "no_rec", "warn_rec", "skip_rec"}, 2)
        /\ Inside({"insert_tags", "delete_links", "insert_links", "insert_media",
                   "no_links", "no_media"}, 3)

\* C7's case: a returned document with a skipped row and an UPDATE statement.
C7_Witness ==
  /\ pc = "done"
  /\ OfKind(returned, "skip_update") # <<>>
  /\ OfKind(returned, "update") # <<>>

\* The text extract_prep_time works on: empty for a missing value.
PrepText == IF value = NaN THEN <<>> ELSE value

DashesOf(t) == {i \in 1..Len(t) : t[i] = "-"}

Least(S) == CHOOSE x \in S : \A y \in S : x <= y

Greatest(S) == CHOOSE x \in S : \A y \in S : y <= x

\* The text between the first '-' and the next one (or the end).
SecondPortion(t) ==
  LET d1 == Least(DashesOf(t))
      later == {i \in DashesOf(t) : i > d1}
  IN  SubSeq(t, d1 + 1, IF later = {} THEN Len(t) ELSE Least(later) - 1)

\* The text after the last '-'.
LastPortion(t) == SubSeq(t, Greatest(DashesOf(t)) + 1, Len(t))

\* The first whitespace-delimited token of a text, <<>> if it has none.
FirstToken(t) ==
  LET ink == {i \in 1..Len(t) : t[i] # " "}
      from == Least(ink)
      gaps == {i \in 1..Len(t) : i > from /\ t[i] = " "}
  IN  IF ink = {} THEN <<>>
      ELSE SubSeq(t, from, IF gaps = {} THEN Len(t) ELSE Least(gaps) - 1)

\* '0:' and the token's number with leading zeros dropped, then padded with
\* zeros to two digits; '0:00' when the token is no digit string.
PrepOfToken(tok) ==
  LET nz == {i \in 1..Len(tok) : tok[i] # "0"}
      num == IF nz = {} THEN <<>> ELSE SubSeq(tok, Least(nz), Len(tok))
      pad == IF Len(num) = 0 THEN <<"0", "0">> ELSE IF Len(num) = 1 THEN <<"0">> ELSE <<>>
  IN  IF tok # <<>> /\ \A i \in 1..Len(tok) : tok[i] \in DigitChars
      THEN <<"0", ":">> \o pad \o num
      ELSE <<"0", ":", "0", "0">>

\* C8, as first stated: the result is computed from the LAST portion of the
\* text split on '-'.
C8_LastPortion ==
  pc = "prep_ret" =>
    prep_time = IF DashesOf(PrepText) = {} THEN <<"0", ":", "0", "0">>
                ELSE PrepOfToken(FirstToken(LastPortion(PrepText)))

\* C8, amended: extract_prep_time always returns; when the text has a '-', it
\* takes the SECOND portion of the text split on '-', then its first
\* whitespace-delimited token, and returns '0:' and that number padded to two
\* digits when the token is a digit string; otherwise '0:00'.
C8_SecondPortion ==
  pc = "prep_ret" =>
    prep_time = IF DashesOf(PrepText) = {} THEN <<"0", ":", "0", "0">>
                ELSE PrepOfToken(FirstToken(SecondPortion(PrepText)))

\* C8's case: a text with two dashes whose second portion is a number.
C8_Witness ==
  /\ pc = "prep_ret"
  /\ Cardinality(DashesOf(PrepText)) = 2
  /\ prep_time # <<"0", ":", "0", "0">>

\* C9: a row with a non-empty item_id whose pairing_recommendation is a blank
\* cell or whitespace only adds nothing in the recommendation pass: no edge
\* and no comment.
C9_EmptyPairingSilent ==
  [][(/\ pc = "rec"
      /\ index < Len(rows)
      /\ ~EmptyCell(rows[index + 1].item_id)
      /\ EmptyCell(rows[index + 1].pairing_recommendation))
     => (all_sql_output' = all_sql_output /\ pairing_rows' = pairing_rows)]_vars

\* C10: the prep-time string is '0:' followed by exactly two decimal digits,
\* four characters in all, whatever the input.
C10_PrepShape ==
  pc = "prep_ret" =>
    /\ Len(prep_time) = 4
    /\ prep_time[1] = "0" /\ prep_time[2] = ":"
    /\ prep_time[3] \in DigitChars /\ prep_time[4] \in DigitChars
=============================================================================
